---- MODULE Spec2Model ----
(***************************************************************************)
(* Model of src/modules/openpgpjs.js (Mailvelope): the four operations     *)
(* decrypt, encrypt, sign and verify, and the signature mapper.            *)
(*                                                                         *)
(* One operation call is followed from its invocation to its settlement.   *)
(* Every `await` of the source is a suspension point and therefore the     *)
(* border between two actions.  The collaborators (keyring, unlock         *)
(* callback, PGP engine) are modelled by their contracts; every call made  *)
(* to them is appended to `calls`.                                         *)
(***************************************************************************)
EXTENDS Naturals, Sequences, FiniteSets, TLC

VARIABLES
  keystore,      \* keyring: ids of the keys held by the key store
  privKeys,      \* keyring: ids of the keys whose private part is held
  op,            \* the arguments of the call
  pc,            \* position of the async function
  privateKey,    \* local `privateKey` (decrypt) / `signingKey` (encrypt, sign)
  unlock,        \* the promise of unlockKey: "none", "pending" or its outcome
  senderAddress, \* local `senderAddress` after normalisation
  signingKeys,   \* local `signingKeys` (decrypt, verify) / `keys` (encrypt)
  message,       \* local `message` (encrypt, sign, verify)
  signature,     \* local `signature` (verify)
  raw,           \* the engine's result: data and raw signatures
  sigpc,         \* position of each callback of signatures.map
  sigs,          \* the `sig` object of each callback
  settled,       \* Promise.all: the values collected from the callbacks
  lookups,       \* the callbacks that called keyring.getFprForKeyId, with its argument
  calls,         \* every other collaborator call made so far, in order
  result,        \* settlement of the promise returned to the caller
  other          \* the same of a second call, suspended at an await

vars == <<keystore, privKeys, op, pc, privateKey, unlock, senderAddress, signingKeys,
          message, signature, raw, sigpc, sigs, settled, lookups, calls, result, other>>

----------------------------------------------------------------------------
(* Bounds *)

\* most signatures a message carries
MaxSigs == 2

----------------------------------------------------------------------------
(* Values *)

KeyIds == {"k1", "k2"}
Addrs == {"a1", "a2"}
\* texts: empty, ASCII, and the single code unit U+00E9
Plaintexts == {"", "hello", "[e9]"}
\* literal data held by a message handed to decrypt or verify
MessageTexts == {"hello"}
Formats == {"utf8", "binary"}

\* a field that was never assigned / an argument that was not supplied
Absent == "absent"

\* the tri-state of sig.valid: true, false, null
Valid == "Valid"
Invalid == "Invalid"
Unknown == "Unknown"

SeqsUpTo(S, n) == UNION {[1..m -> S] : m \in 0..n}

Range(s) == {s[i] : i \in 1..Len(s)}

NoDup(s) == \A i, j \in 1..Len(s) : s[i] = s[j] => i = j

\* sender address lists: empty, single, repeated, both orders of two, and
\* one address repeated around another
AddrSeqs == SeqsUpTo(Addrs, Cardinality(Addrs)) \cup {<<"a2", "a1", "a2">>}

\* every order of every selection of key ids
IdSeqs == {x \in SeqsUpTo(KeyIds, Cardinality(KeyIds)) : NoDup(x)}

\* key handles
Pub(k) == <<"pub", k>>
Priv(k) == <<"priv", k>>
Unlocked(k) == <<"unlocked", k>>
KeyIdOf(h) == h[2]
UndefinedKey == <<"undefined", "">>

\* openpgp KeyID object and its hex form
KeyID(k) == <<"keyid", k>>
ToHex(kid) == kid[2]

\* fingerprint of a key
Fingerprint(k) == IF k = "k1" THEN "F1" ELSE "F2"
Fprs == {Fingerprint(k) : k \in KeyIds}
KeyOfFpr(f) == CHOOSE k \in KeyIds : Fingerprint(k) = f

\* user id (email address) of a key
KeyAddr(k) == IF k = "k1" THEN "a1" ELSE "a2"

\* key ids whose long key id is shared by a second key of the key store
Collide == {"k2"}

\* creation time carried by a signature packet
Created == "t0"

\* data as the engine delivers it, and the byte <-> string bridge: a byte
\* array is written as the string that has one code unit per byte
Str(d) == <<"str", d>>
U8(d) == <<"u8", d>>
Uint8Array2str(b) == <<"str", b[2]>>
str2Uint8Array(s) == <<"u8", s[2]>>

\* UTF-8: U+00E9 is the bytes c3 a9; a lone byte e9 decodes to U+FFFD
utf8Encode(t) == IF t = "[e9]" THEN "[c3][a9]" ELSE t
utf8Decode(b) ==
  IF b = "[c3][a9]" THEN "[e9]"
  ELSE IF b = "[e9]" THEN "[fffd]"
  ELSE b

----------------------------------------------------------------------------
(* Keyring *)

\* keyring.getPrivateKeyByIds: the first id with a private key, or none
PrivateKeyIndex(ids) ==
  IF \E i \in 1..Len(ids) : ids[i] \in privKeys
  THEN CHOOSE i \in 1..Len(ids) :
         /\ ids[i] \in privKeys
         /\ \A j \in 1..(i - 1) : ids[j] \notin privKeys
  ELSE 0

getPrivateKeyByIds(ids) ==
  IF PrivateKeyIndex(ids) = 0
  THEN [ok |-> FALSE, key |-> UndefinedKey]
  ELSE [ok |-> TRUE, key |-> Priv(ids[PrivateKeyIndex(ids)])]

\* keyring.getKeyByAddress(addresses)[email] || []
KeysOfAddress(a) ==
  LET k1 == IF "k1" \in keystore /\ KeyAddr("k1") = a THEN <<Pub("k1")>> ELSE <<>>
      k2 == IF "k2" \in keystore /\ KeyAddr("k2") = a THEN <<Pub("k2")>> ELSE <<>>
  IN  k1 \o k2

\* keyring.getFprForKeyId: throws when no key or more than one key is found
FprLookupOk(hex) == hex \in keystore /\ hex \notin Collide
getFprForKeyId(hex) == Fingerprint(hex)

----------------------------------------------------------------------------
(* util *)

RECURSIVE Dedup(_)
Dedup(s) ==
  IF s = <<>> THEN <<>>
  ELSE LET front == Dedup(SubSeq(s, 1, Len(s) - 1))
           last == s[Len(s)]
       IN  IF last \in Range(front) THEN front ELSE Append(front, last)

toArray(param) == Dedup(param)

----------------------------------------------------------------------------
(* Call log *)

Call(fn, arg) == [fn |-> fn, arg |-> arg]

Called(fn) == \E i \in 1..Len(calls) : calls[i].fn = fn

----------------------------------------------------------------------------
(* Settlement *)

Pending == [status |-> "pending"]
Rejected(e) == [status |-> "rejected", error |-> e]
Fulfilled(v) == [status |-> "fulfilled", value |-> v]

UnlockOutcomes == {"ok", "UserCancelled", "WrongPassphrase"}

NoSigningKeys == [defined |-> FALSE, keys |-> <<>>]
SomeSigningKeys(ks) == [defined |-> TRUE, keys |-> ks]

NoRaw == [data |-> Str(""), signatures |-> <<>>]

----------------------------------------------------------------------------
(* PGP engine *)

\* a signature inside a message: who made it and whether it matches the data
MsgSigs == [signer : KeyIds, good : BOOLEAN]

\* outcome of the `verified` promise of one signature
Verified(s, keys) ==
  IF s.signer \notin {KeyIdOf(keys[i]) : i \in 1..Len(keys)} THEN "rejectNoKey"
  ELSE IF s.good THEN "resolve"
  ELSE "rejectOther"

\* the signatures list of the engine's result
RawSignatures(msgSigs, keys) ==
  [i \in 1..Len(msgSigs) |->
     [keyID |-> KeyID(msgSigs[i].signer),
      verified |-> Verified(msgSigs[i], keys)]]

\* outcome of the `signature` promise of one signature
SignatureOutcomes == {"resolve", "reject"}

\* message handles
UndefinedMsg == [kind |-> "undefined", data |-> Str(""), sigs |-> <<>>]
TextMsg(d) == [kind |-> "text", data |-> Str(d), sigs |-> <<>>]
BinaryMsg(b) == [kind |-> "binary", data |-> b, sigs |-> <<>>]
CleartextMsg(d) == [kind |-> "cleartext", data |-> Str(d), sigs |-> <<>>]
SignedMsg(d, s) == [kind |-> "signed", data |-> Str(d), sigs |-> s]

\* a message the caller holds from elsewhere: no call of this module made it
Given == [name |-> "none"]

\* detached signature: not supplied, not parsable, or an armored block
UndefinedSig == [kind |-> "undefined", sigs |-> <<>>]
MalformedSig == [kind |-> "malformed", sigs |-> <<>>]
ArmoredSig(s) == [kind |-> "armored", sigs |-> s]
ParsedSig(s) == [kind |-> "signature", sigs |-> s]

\* dataURL argument and its decoding
UndefinedURL == <<"undefined", "">>
DataURL(d) == <<"dataurl", d>>
dataURL2str(u) == <<"str", u[2]>>

EngineErrors == {"DecryptionFailed", "MalformedMessage"}

----------------------------------------------------------------------------
(* State after construction *)

\* the parameters and locals of a call that has not been made yet
NotCalled ==
  [op |-> [name |-> "none"], pc |-> "idle", privateKey |-> UndefinedKey,
   unlock |-> "none", senderAddress |-> <<>>, signingKeys |-> NoSigningKeys,
   message |-> UndefinedMsg, signature |-> UndefinedSig, raw |-> NoRaw,
   sigpc |-> <<>>, sigs |-> <<>>, settled |-> <<>>, lookups |-> {},
   calls |-> <<>>, result |-> Pending]

Init ==
  /\ keystore \in SUBSET KeyIds
  /\ privKeys \in SUBSET keystore
  /\ other = NotCalled
  /\ op = [name |-> "none"]
  /\ pc = "idle"
  /\ privateKey = UndefinedKey
  /\ unlock = "none"
  /\ senderAddress = <<>>
  /\ signingKeys = NoSigningKeys
  /\ message = UndefinedMsg
  /\ signature = UndefinedSig
  /\ raw = NoRaw
  /\ sigpc = <<>>
  /\ sigs = <<>>
  /\ settled = <<>>
  /\ lookups = {}
  /\ calls = <<>>
  /\ result = Pending

Keyring == <<keystore, privKeys>>
MapState == <<raw, sigpc, sigs, settled, lookups>>

\* the operation throws: the promise is rejected and nothing more runs
Throw(e) ==
  /\ result' = Rejected(e)
  /\ pc' = "done"

\* variant: the rejection of unlockKey is caught and the operation returns
UnlockFailedCaught(outcome) ==
  /\ result' = Fulfilled(Str(""))
  /\ pc' = "done"

\* lines 25, 99, 117: the awaited unlockKey rejects, nothing catches it
UnlockFailed(outcome) == Throw(outcome)

----------------------------------------------------------------------------
(* mapSignatures *)

\* a slot of Promise.all that no callback has filled yet
NotSettled == [keyId |-> Absent, valid |-> Absent, created |-> Absent,
               fingerprint |-> Absent]

\* lines 52-54: the callback of every signature runs up to its first await
StartCallbacks(signatures) ==
  /\ sigs' = [i \in 1..Len(signatures) |->
                [keyId |-> ToHex(signatures[i].keyID), valid |-> Absent,
                 created |-> Absent, fingerprint |-> Absent]]
  /\ sigpc' = [i \in 1..Len(signatures) |-> "verified"]
  /\ settled' = [i \in 1..Len(signatures) |-> NotSettled]
  /\ lookups' = {}

\* variant: the test of the error message never matches
ClassifyNoNull(verified) ==
  IF verified = "resolve" THEN Valid ELSE Invalid

\* lines 55-59: the `verified` promise settles
Classify(verified) ==
  IF verified = "resolve" THEN Valid
  ELSE IF verified = "rejectNoKey" THEN Unknown
  ELSE Invalid

SigVerified(i) ==
  /\ pc = "map"
  /\ sigpc[i] = "verified"
  /\ sigs' = [sigs EXCEPT ![i].valid = Classify(raw.signatures[i].verified)]
  /\ sigpc' = [sigpc EXCEPT ![i] = "signature"]
  /\ UNCHANGED <<Keyring, other, unlock, op, pc, privateKey, senderAddress, signingKeys,
                 message, signature, raw, settled, lookups, calls, result>>

\* variant: a failed extraction of the creation time rejects the signature
WithCreatedOrInvalid(sig, outcome) ==
  IF outcome = "resolve" THEN [sig EXCEPT !.created = Created]
  ELSE [sig EXCEPT !.valid = Invalid]

\* lines 60-62
WithCreated(sig, outcome) ==
  IF outcome = "resolve" THEN [sig EXCEPT !.created = Created] ELSE sig

\* the fingerprint step of callback i: getFprForKeyId returns or throws
Lookup(i, sig) ==
  [sig |-> IF FprLookupOk(sig.keyId)
           THEN [sig EXCEPT !.fingerprint = getFprForKeyId(sig.keyId)]
           ELSE [sig EXCEPT !.valid = Invalid],
   lookups |-> {<<i, sig.keyId>>}]

\* variant: the fingerprint is looked up whatever sig.valid is
WithFingerprintAlways(i, sig) == Lookup(i, sig)

\* variant: a failed lookup is logged but the signature is not rejected
WithFingerprintKeepValid(i, sig) ==
  IF sig.valid # Unknown
  THEN [sig |-> IF FprLookupOk(sig.keyId)
                THEN [sig EXCEPT !.fingerprint = getFprForKeyId(sig.keyId)]
                ELSE sig,
        lookups |-> {<<i, sig.keyId>>}]
  ELSE [sig |-> sig, lookups |-> {}]

\* variant: the record is returned without the fingerprint step
WithFingerprintSkipped(i, sig) == [sig |-> sig, lookups |-> {}]

\* lines 63-71: the callback's record and its calls of getFprForKeyId
WithFingerprint(i, sig) ==
  IF sig.valid # Unknown THEN Lookup(i, sig) ELSE [sig |-> sig, lookups |-> {}]

\* variant: the values are kept in the order in which the callbacks return
CollectPush(values, i, v) ==
  LET n == Cardinality({j \in 1..Len(values) : values[j] # NotSettled})
  IN  [values EXCEPT ![n + 1] = v]

\* line 52: Promise.all keeps the value of callback i at index i
Collect(values, i, v) == [values EXCEPT ![i] = v]

\* lines 60-72: the `signature` promise settles, the callback returns
SigCreated(i) ==
  /\ pc = "map"
  /\ sigpc[i] = "signature"
  /\ \E outcome \in SignatureOutcomes :
       LET step == WithFingerprint(i, WithCreated(sigs[i], outcome))
       IN  /\ sigs' = [sigs EXCEPT ![i] = step.sig]
           /\ settled' = Collect(settled, i, step.sig)
           /\ lookups' = lookups \cup step.lookups
  /\ sigpc' = [sigpc EXCEPT ![i] = "done"]
  /\ UNCHANGED <<Keyring, other, unlock, op, pc, privateKey, senderAddress, signingKeys,
                 message, signature, raw, calls, result>>

\* lines 44-48 (decrypt) and 146-147 (verify)
MapJoin ==
  /\ pc = "map"
  /\ \A i \in 1..Len(sigpc) : sigpc[i] = "done"
  /\ LET signatures == settled
         data == IF op.name = "decrypt" /\ op.format = "binary"
                 THEN Uint8Array2str(raw.data)
                 ELSE raw.data
     IN  result' = Fulfilled([data |-> data, signatures |-> signatures])
  /\ pc' = "done"
  /\ UNCHANGED <<Keyring, other, unlock, op, privateKey, senderAddress, signingKeys,
                 message, signature, MapState, calls>>

----------------------------------------------------------------------------
(* decrypt *)

\* a message to decrypt: signatures, literal data, the recipients' key ids
\* (which the caller reads off the message), where it comes from
DecryptArgs ==
  {[name |-> "decrypt",
    message |-> [sigs |-> s, data |-> d, recipients |-> Range(ids), origin |-> Given],
    senderAddress |-> a, selfSigned |-> ss, encryptionKeyIds |-> ids, format |-> f] :
     s \in SeqsUpTo(MsgSigs, MaxSigs), d \in MessageTexts,
     a \in AddrSeqs, ss \in BOOLEAN, ids \in IdSeqs, f \in Formats}

\* lines 23-25, up to the await of unlockKey: a fresh call with arguments a
DecryptBegin(a) ==
  /\ op' = a
  /\ LET r == getPrivateKeyByIds(a.encryptionKeyIds)
     IN  IF r.ok
         THEN /\ privateKey' = r.key
              /\ calls' = calls \o <<Call("getPrivateKeyByIds", a.encryptionKeyIds),
                                     Call("unlockKey", r.key)>>
              /\ unlock' = "pending"
              /\ pc' = "decrypt_unlock"
              /\ result' = Pending
         ELSE /\ calls' = Append(calls, Call("getPrivateKeyByIds", a.encryptionKeyIds))
              /\ Throw("NoKeyFound")
              /\ privateKey' = UndefinedKey
              /\ unlock' = "none"

DecryptStart ==
  /\ pc = "idle"
  /\ \E a \in DecryptArgs : DecryptBegin(a)
  /\ UNCHANGED <<Keyring, other, senderAddress, signingKeys, message, signature, MapState>>

\* variant: the decryption key also stands in when no verification is asked for
DecryptCallEngineAlways(key, keys) ==
  LET verificationKeys ==
        IF Len(keys.keys) = 0 THEN SomeSigningKeys(<<key>>) ELSE keys
  IN  /\ signingKeys' = verificationKeys
      /\ calls' = Append(calls, Call("pgpDecrypt",
                    [decryptionKeys |-> key, verificationKeys |-> verificationKeys]))
      /\ pc' = "decrypt_engine"

\* variant: no fallback to the decryption key
DecryptCallEngineNoFallback(key, keys) ==
  /\ signingKeys' = keys
  /\ calls' = Append(calls, Call("pgpDecrypt",
                [decryptionKeys |-> key, verificationKeys |-> keys]))
  /\ pc' = "decrypt_engine"

\* variant: the key is handed over as it was resolved, still locked
DecryptCallEngineLocked(key, keys) ==
  LET verificationKeys ==
        IF keys.defined /\ Len(keys.keys) = 0 THEN SomeSigningKeys(<<key>>) ELSE keys
  IN  /\ signingKeys' = verificationKeys
      /\ calls' = Append(calls, Call("pgpDecrypt",
                    [decryptionKeys |-> Priv(KeyIdOf(key)),
                     verificationKeys |-> verificationKeys]))
      /\ pc' = "decrypt_engine"

\* variant: a self-signed message adds the decryption key to the keys found
DecryptCallEngineWithSelf(key, keys) ==
  LET verificationKeys ==
        IF keys.defined /\ (Len(keys.keys) = 0 \/ op.selfSigned)
        THEN SomeSigningKeys(Append(keys.keys, key))
        ELSE keys
  IN  /\ signingKeys' = verificationKeys
      /\ calls' = Append(calls, Call("pgpDecrypt",
                    [decryptionKeys |-> key, verificationKeys |-> verificationKeys]))
      /\ pc' = "decrypt_engine"

\* lines 39-43: fallback to the decryption key, then the engine call
DecryptCallEngine(key, keys) ==
  LET verificationKeys ==
        IF keys.defined /\ Len(keys.keys) = 0 THEN SomeSigningKeys(<<key>>) ELSE keys
  IN  /\ signingKeys' = verificationKeys
      /\ calls' = Append(calls, Call("pgpDecrypt",
                    [decryptionKeys |-> key, verificationKeys |-> verificationKeys]))
      /\ pc' = "decrypt_engine"

\* lines 25-33: unlockKey settles; on success run up to the next await
DecryptUnlock ==
  /\ pc = "decrypt_unlock"
  /\ \E outcome \in UnlockOutcomes :
       /\ unlock' = outcome
       /\ IF outcome # "ok"
          THEN /\ UnlockFailed(outcome)
               /\ UNCHANGED <<privateKey, senderAddress, signingKeys, calls>>
          ELSE LET key == Unlocked(KeyIdOf(privateKey))
                   addrs == toArray(op.senderAddress)
               IN  /\ privateKey' = key
                   /\ senderAddress' = addrs
                   /\ UNCHANGED result
                   /\ IF Len(addrs) > 0
                      THEN /\ calls' = Append(calls, Call("getKeyByAddress", addrs))
                           /\ signingKeys' = SomeSigningKeys(<<>>)
                           /\ pc' = "decrypt_address"
                      ELSE DecryptCallEngine(key,
                             IF op.selfSigned THEN SomeSigningKeys(<<>>)
                             ELSE NoSigningKeys)
  /\ UNCHANGED <<Keyring, other, op, message, signature, MapState>>

\* variant: the keys of a later address are put in front
RECURSIVE FlattenKeysReversed(_)
FlattenKeysReversed(addrs) ==
  IF addrs = <<>> THEN <<>>
  ELSE KeysOfAddress(addrs[Len(addrs)])
         \o FlattenKeysReversed(SubSeq(addrs, 1, Len(addrs) - 1))

\* line 34: flatten the keys of the addresses, in address order
RECURSIVE FlattenKeys(_)
FlattenKeys(addrs) ==
  IF addrs = <<>> THEN <<>>
  ELSE FlattenKeys(SubSeq(addrs, 1, Len(addrs) - 1)) \o KeysOfAddress(addrs[Len(addrs)])

\* lines 33-43: getKeyByAddress settles
DecryptAddress ==
  /\ pc = "decrypt_address"
  /\ DecryptCallEngine(privateKey, SomeSigningKeys(FlattenKeys(senderAddress)))
  /\ UNCHANGED <<Keyring, other, unlock, op, privateKey, senderAddress, message, signature, MapState, result>>

\* the engine's decrypt fails on a message that is damaged or not encrypted
\* to the key; a message handed in from elsewhere may be either
MayFail(msg, key) == msg.origin = Given \/ KeyIdOf(key) \notin msg.recipients

\* the literal data in the requested format
Decrypted(bytes, format) ==
  IF format = "binary" THEN U8(bytes) ELSE Str(utf8Decode(bytes))

\* lines 43-44: pgpDecrypt settles; on success mapSignatures starts
DecryptEngine ==
  /\ pc = "decrypt_engine"
  /\ \/ /\ MayFail(op.message, privateKey)
        /\ \E e \in EngineErrors :
             /\ Throw(e)
             /\ UNCHANGED MapState
     \/ /\ KeyIdOf(privateKey) \in op.message.recipients
        /\ LET signatures == RawSignatures(op.message.sigs, signingKeys.keys)
           IN  /\ raw' = [data |-> Decrypted(op.message.data, op.format),
                          signatures |-> signatures]
               /\ StartCallbacks(signatures)
               /\ pc' = "map"
               /\ UNCHANGED result
  /\ UNCHANGED <<Keyring, other, unlock, op, privateKey, senderAddress, signingKeys, message, signature, calls>>

----------------------------------------------------------------------------
(* encrypt *)

\* keyring.getKeysByFprs: the public keys of the fingerprints, none is an error
KeysOfFprs(fprs) ==
  LET held == SelectSeq(fprs, LAMBDA f : KeyOfFpr(f) \in keystore)
  IN  [i \in 1..Len(held) |-> Pub(KeyOfFpr(held[i]))]

getKeysByFprs(fprs) ==
  IF KeysOfFprs(fprs) = <<>>
  THEN [ok |-> FALSE, keys |-> <<>>]
  ELSE [ok |-> TRUE, keys |-> KeysOfFprs(fprs)]

\* getPrivateKeyByIds called with one fingerprint
IdsOfFpr(f) == IF f \in Fprs THEN <<KeyOfFpr(f)>> ELSE <<>>

EncryptArgs ==
  {[name |-> "encrypt", data |-> d, dataURL |-> u, encryptionKeyFprs |-> fprs,
    signingKeyFpr |-> sf, armor |-> ar] :
     d \in {Str(x) : x \in Plaintexts} \cup {<<"undefined", "">>},
     u \in {DataURL(x) : x \in Plaintexts} \cup {UndefinedURL},
     fprs \in {[i \in 1..Len(x) |-> Fingerprint(x[i])] : x \in IdSeqs},
     sf \in Fprs \cup {""}, ar \in BOOLEAN}

\* truthiness of the `data` and `dataURL` arguments
DataGiven(a) == a.data[1] = "str" /\ a.data[2] # ""
URLGiven(a) == a.dataURL[1] = "dataurl"

\* lines 90-96: the message createMessage is asked for
CreatedMessage(a) ==
  IF DataGiven(a) THEN TextMsg(a.data[2])
  ELSE IF URLGiven(a) THEN BinaryMsg(str2Uint8Array(dataURL2str(a.dataURL)))
  ELSE UndefinedMsg

\* variant: an empty list of recipient keys is handed to the engine
EncryptResolveUnchecked(a, log, msg, key) ==
  LET r == getKeysByFprs(a.encryptionKeyFprs)
  IN  /\ calls' = log \o
            <<Call("getKeysByFprs", a.encryptionKeyFprs),
              Call("pgpEncrypt",
                   [message |-> msg, encryptionKeys |-> r.keys, signingKeys |-> key,
                    format |-> IF a.armor THEN "armored" ELSE "binary"])>>
      /\ signingKeys' = SomeSigningKeys(r.keys)
      /\ pc' = "encrypt_engine"
      /\ UNCHANGED result

\* variant: the engine is handed the keys before the lookup's failure surfaces
EncryptResolveEager(a, log, msg, key) ==
  LET r == getKeysByFprs(a.encryptionKeyFprs)
  IN  /\ calls' = log \o
            <<Call("getKeysByFprs", a.encryptionKeyFprs),
              Call("pgpEncrypt",
                   [message |-> msg, encryptionKeys |-> r.keys, signingKeys |-> key,
                    format |-> IF a.armor THEN "armored" ELSE "binary"])>>
      /\ signingKeys' = SomeSigningKeys(r.keys)
      /\ IF r.ok
         THEN /\ pc' = "encrypt_engine"
              /\ UNCHANGED result
         ELSE Throw("NoKeyFound")

\* lines 101-102: resolve the recipients' keys, then the engine call
EncryptResolve(a, log, msg, key) ==
  LET r == getKeysByFprs(a.encryptionKeyFprs)
  IN  IF r.ok
      THEN /\ calls' = log \o
                 <<Call("getKeysByFprs", a.encryptionKeyFprs),
                   Call("pgpEncrypt",
                        [message |-> msg, encryptionKeys |-> r.keys, signingKeys |-> key,
                         format |-> IF a.armor THEN "armored" ELSE "binary"])>>
           /\ signingKeys' = SomeSigningKeys(r.keys)
           /\ pc' = "encrypt_engine"
           /\ UNCHANGED result
      ELSE /\ calls' = Append(log, Call("getKeysByFprs", a.encryptionKeyFprs))
           /\ Throw("NoKeyFound")
           /\ UNCHANGED signingKeys

\* lines 97-102, up to the next await
EncryptSign(a, log, msg) ==
  IF a.signingKeyFpr # ""
  THEN LET r == getPrivateKeyByIds(IdsOfFpr(a.signingKeyFpr))
       IN  /\ UNCHANGED signingKeys
           /\ IF r.ok
              THEN /\ privateKey' = r.key
                   /\ calls' = log \o <<Call("getPrivateKeyByIds", a.signingKeyFpr),
                                        Call("unlockKey", r.key)>>
                   /\ unlock' = "pending"
                   /\ pc' = "encrypt_unlock"
                   /\ UNCHANGED result
              ELSE /\ calls' = Append(log, Call("getPrivateKeyByIds", a.signingKeyFpr))
                   /\ Throw("NoKeyFound")
                   /\ UNCHANGED <<privateKey, unlock>>
  ELSE /\ EncryptResolve(a, log, msg, UndefinedKey)
       /\ UNCHANGED <<privateKey, unlock>>

\* lines 87-96, up to the await of createMessage (or further when none is
\* made): a fresh call with arguments a
EncryptBegin(a) ==
  /\ op' = a
  /\ IF DataGiven(a) \/ URLGiven(a)
     THEN /\ calls' = Append(calls, Call("createMessage", CreatedMessage(a)))
          /\ pc' = "encrypt_message"
          /\ UNCHANGED <<privateKey, unlock, signingKeys, result>>
     ELSE EncryptSign(a, calls, UndefinedMsg)

EncryptStart ==
  /\ pc = "idle"
  /\ \E a \in EncryptArgs : EncryptBegin(a)
  /\ UNCHANGED <<Keyring, other, senderAddress, message, signature, MapState>>

\* lines 91/95: createMessage settles
EncryptMessage ==
  /\ pc = "encrypt_message"
  /\ message' = CreatedMessage(op)
  /\ EncryptSign(op, calls, CreatedMessage(op))
  /\ UNCHANGED <<Keyring, other, op, senderAddress, signature, MapState>>

\* line 99: unlockKey settles
EncryptUnlock ==
  /\ pc = "encrypt_unlock"
  /\ \E outcome \in UnlockOutcomes :
       /\ unlock' = outcome
       /\ IF outcome # "ok"
          THEN /\ UnlockFailed(outcome)
               /\ UNCHANGED <<privateKey, signingKeys, calls>>
          ELSE /\ privateKey' = Unlocked(KeyIdOf(privateKey))
               /\ EncryptResolve(op, calls, message, Unlocked(KeyIdOf(privateKey)))
  /\ UNCHANGED <<Keyring, other, op, senderAddress, message, signature, MapState>>

\* the engine's encrypt: who can read it, who signed it, what it holds
Ciphertext(msg, keys, key) ==
  [recipients |-> [i \in 1..Len(keys) |-> KeyIdOf(keys[i])],
   signer |-> KeyIdOf(key),
   message |-> msg]

Armored(c) == <<"armored", c>>

pgpEncrypt(a) ==
  IF a.message.kind = "undefined" \/ a.encryptionKeys = <<>>
  THEN [ok |-> FALSE, value |-> Armored(Ciphertext(a.message, <<>>, UndefinedKey))]
  ELSE [ok |-> TRUE,
        value |-> IF a.format = "armored"
                  THEN Armored(Ciphertext(a.message, a.encryptionKeys, a.signingKeys))
                  ELSE U8(Ciphertext(a.message, a.encryptionKeys, a.signingKeys))]

\* lines 102-103: pgpEncrypt settles
EncryptEngine ==
  /\ pc = "encrypt_engine"
  /\ LET r == pgpEncrypt(calls[Len(calls)].arg)
     IN  result' = IF r.ok
                   THEN Fulfilled(IF op.armor THEN r.value ELSE Uint8Array2str(r.value))
                   ELSE Rejected("EngineError")
  /\ pc' = "done"
  /\ UNCHANGED <<Keyring, other, unlock, op, privateKey, senderAddress, signingKeys, message,
                 signature, MapState, calls>>

----------------------------------------------------------------------------
(* sign *)

SignArgs ==
  {[name |-> "sign", data |-> d, signingKeyFpr |-> sf] :
     d \in Plaintexts, sf \in Fprs \cup {""}}

\* lines 114-115, up to the await of createCleartextMessage: a fresh call
\* with arguments a
SignBegin(a) ==
  /\ op' = a
  /\ calls' = Append(calls, Call("createCleartextMessage", CleartextMsg(a.data)))
  /\ pc' = "sign_message"

SignStart ==
  /\ pc = "idle"
  /\ \E a \in SignArgs : SignBegin(a)
  /\ UNCHANGED <<Keyring, other, unlock, privateKey, senderAddress, signingKeys, message, signature,
                 MapState, result>>

\* lines 115-117: createCleartextMessage settles
SignMessage ==
  /\ pc = "sign_message"
  /\ message' = CleartextMsg(op.data)
  /\ LET r == getPrivateKeyByIds(IdsOfFpr(op.signingKeyFpr))
     IN  IF r.ok
         THEN /\ privateKey' = r.key
              /\ calls' = calls \o <<Call("getPrivateKeyByIds", op.signingKeyFpr),
                                     Call("unlockKey", r.key)>>
              /\ unlock' = "pending"
              /\ pc' = "sign_unlock"
              /\ UNCHANGED result
         ELSE /\ calls' = Append(calls, Call("getPrivateKeyByIds", op.signingKeyFpr))
              /\ Throw("NoKeyFound")
              /\ UNCHANGED <<privateKey, unlock>>
  /\ UNCHANGED <<Keyring, other, op, senderAddress, signingKeys, signature, MapState>>

\* lines 117-118: unlockKey settles
SignUnlock ==
  /\ pc = "sign_unlock"
  /\ \E outcome \in UnlockOutcomes :
       /\ unlock' = outcome
       /\ IF outcome # "ok"
          THEN /\ UnlockFailed(outcome)
               /\ UNCHANGED <<privateKey, calls>>
          ELSE /\ privateKey' = Unlocked(KeyIdOf(privateKey))
               /\ calls' = Append(calls, Call("pgpSign",
                             [message |-> message,
                              signingKeys |-> <<Unlocked(KeyIdOf(privateKey))>>]))
               /\ pc' = "sign_engine"
               /\ UNCHANGED result
  /\ UNCHANGED <<Keyring, other, op, senderAddress, signingKeys, message, signature, MapState>>

\* the engine's sign: the cleartext with the signature of each signing key
pgpSign(a) ==
  <<"cleartext",
    [data |-> a.message.data,
     sigs |-> [i \in 1..Len(a.signingKeys) |->
                 [signer |-> KeyIdOf(a.signingKeys[i]), good |-> TRUE]]]>>

\* lines 118-119: pgpSign settles
SignEngine ==
  /\ pc = "sign_engine"
  /\ result' = Fulfilled(pgpSign(calls[Len(calls)].arg))
  /\ pc' = "done"
  /\ UNCHANGED <<Keyring, other, unlock, op, privateKey, senderAddress, signingKeys, message,
                 signature, MapState, calls>>

----------------------------------------------------------------------------
(* verify *)

\* an element of signingKeyIds: a string or a KeyID object
IdValues == {<<"str", "k1">>, KeyID("k2")}

\* line 134: typeof keyId === 'string' ? keyId : keyId.toHex()
HexOfId(id) == IF id[1] = "str" THEN id[2] ELSE ToHex(id)

VerifyArgs ==
  {[name |-> "verify", message |-> m, plaintext |-> p, detachedSignature |-> ds,
    signingKeyIds |-> ids] :
     m \in {UndefinedMsg} \cup
           {SignedMsg(d, s) : d \in MessageTexts, s \in SeqsUpTo(MsgSigs, MaxSigs)},
     p \in Plaintexts,
     ds \in {UndefinedSig, MalformedSig} \cup
            {ArmoredSig(<<s>>) : s \in MsgSigs},
     ids \in {x \in SeqsUpTo(IdValues, Cardinality(KeyIds)) :
                NoDup([i \in 1..Len(x) |-> HexOfId(x[i])])}}

\* variant: a key is pushed for every id, matched or not
KeysForIdsAll(ids) == [i \in 1..Len(ids) |-> Pub(HexOfId(ids[i]))]

\* lines 132-139: the first key of every id the key store knows
RECURSIVE KeysForIds(_)
KeysForIds(ids) ==
  IF ids = <<>> THEN <<>>
  ELSE LET front == KeysForIds(SubSeq(ids, 1, Len(ids) - 1))
           hex == HexOfId(ids[Len(ids)])
       IN  IF hex \in keystore THEN Append(front, Pub(hex)) ELSE front

LookupCalls(ids) == [i \in 1..Len(ids) |-> Call("getKeysForId", HexOfId(ids[i]))]

\* line 145: the engine call
VerifyCallEngine(log, msg, keys, sig) ==
  /\ calls' = Append(log, Call("pgpVerify",
                 [message |-> msg, verificationKeys |-> keys, signature |-> sig]))
  /\ pc' = "verify_engine"

\* lines 131-142/145, up to the first await: a fresh call with arguments a
VerifyBegin(a) ==
  /\ op' = a
  /\ message' = a.message
  /\ signingKeys' = SomeSigningKeys(KeysForIds(a.signingKeyIds))
  /\ IF a.plaintext # "" /\ a.detachedSignature.kind # "undefined"
     THEN /\ calls' = calls \o LookupCalls(a.signingKeyIds)
                        \o <<Call("readSignature", a.detachedSignature)>>
          /\ pc' = "verify_read"
     ELSE VerifyCallEngine(calls \o LookupCalls(a.signingKeyIds), a.message,
                           KeysForIds(a.signingKeyIds), UndefinedSig)
  /\ privateKey' = UndefinedKey
  /\ unlock' = "none"
  /\ result' = Pending

VerifyStart ==
  /\ pc = "idle"
  /\ \E a \in VerifyArgs : VerifyBegin(a)
  /\ UNCHANGED <<Keyring, other, senderAddress, signature, MapState>>

\* lines 142-143: readSignature settles
VerifyRead ==
  /\ pc = "verify_read"
  /\ IF op.detachedSignature.kind = "malformed"
     THEN /\ Throw("MalformedSignature")
          /\ UNCHANGED <<signature, calls>>
     ELSE /\ signature' = ParsedSig(op.detachedSignature.sigs)
          /\ calls' = Append(calls, Call("createMessage", TextMsg(op.plaintext)))
          /\ pc' = "verify_message"
          /\ UNCHANGED result
  /\ UNCHANGED <<Keyring, other, unlock, op, privateKey, senderAddress, signingKeys, message, MapState>>

\* lines 143-145: createMessage settles
VerifyMessage ==
  /\ pc = "verify_message"
  /\ message' = TextMsg(op.plaintext)
  /\ VerifyCallEngine(calls, TextMsg(op.plaintext), signingKeys.keys, signature)
  /\ UNCHANGED <<Keyring, other, unlock, op, privateKey, senderAddress, signingKeys, signature,
                 MapState, result>>

\* lines 145-146: pgpVerify settles; on success mapSignatures starts
VerifyEngine ==
  /\ pc = "verify_engine"
  /\ LET a == calls[Len(calls)].arg
         found == IF a.signature.kind = "signature" THEN a.signature.sigs
                  ELSE a.message.sigs
     IN  IF a.message.kind = "undefined"
         THEN /\ Throw("MalformedMessage")
              /\ UNCHANGED MapState
         ELSE LET signatures == RawSignatures(found, a.verificationKeys)
              IN  /\ raw' = [data |-> a.message.data, signatures |-> signatures]
                  /\ StartCallbacks(signatures)
                  /\ pc' = "map"
                  /\ UNCHANGED result
  /\ UNCHANGED <<Keyring, other, unlock, op, privateKey, senderAddress, signingKeys, message,
                 signature, calls>>

----------------------------------------------------------------------------
(* One call after another: the output of encrypt is decrypted, the output *)
(* of sign is verified                                                     *)

\* openpgp readMessage, on the armored text or on the bytes of the binary string
readMessage(out) ==
  IF out[1] = "armored" THEN out[2] ELSE str2Uint8Array(out)[2]

\* the literal data of a message built by createMessage
Literal(msg) ==
  IF msg.data[1] = "str" THEN utf8Encode(msg.data[2]) ELSE msg.data[2]

\* the message read from a ciphertext that the call with arguments a returned
Received(c, a) ==
  [sigs |-> IF c.signer = KeyIdOf(UndefinedKey) THEN <<>>
            ELSE <<[signer |-> c.signer, good |-> TRUE]>>,
   data |-> Literal(c.message),
   recipients |-> Range(c.recipients),
   origin |-> a]

\* the caller hands the output of encrypt to decrypt, with the recipients'
\* key ids it reads off the message
DecryptReceived ==
  /\ pc = "done"
  /\ op.name = "encrypt"
  /\ result.status = "fulfilled"
  /\ LET c == readMessage(result.value)
     IN  \E a \in {<<>>, <<"a1">>}, ss \in BOOLEAN, f \in Formats :
           DecryptBegin([name |-> "decrypt", message |-> Received(c, op),
                         senderAddress |-> a, selfSigned |-> ss,
                         encryptionKeyIds |-> c.recipients, format |-> f])
  /\ UNCHANGED <<Keyring, other, senderAddress, signingKeys, message, signature, MapState>>

\* openpgp readCleartextMessage on the output of sign
readCleartextMessage(out) == SignedMsg(out[2].data[2], out[2].sigs)

\* the armored signature block of the output of sign
SignatureBlock(out) == ArmoredSig(out[2].sigs)

\* how the caller hands a signed text to verify: as the message read from
\* it, or as the plaintext next to its signature block
Modes == {"attached", "detached"}

\* the caller hands the output of sign to verify, with the signing key's id
VerifySigned ==
  /\ pc = "done"
  /\ op.name = "sign"
  /\ result.status = "fulfilled"
  /\ \E mode \in Modes, id \in IdValues :
       /\ Fingerprint(HexOfId(id)) = op.signingKeyFpr
       /\ VerifyBegin(
            [name |-> "verify",
             message |-> IF mode = "attached" THEN readCleartextMessage(result.value)
                         ELSE UndefinedMsg,
             plaintext |-> IF mode = "detached" THEN op.data ELSE "",
             detachedSignature |-> IF mode = "detached" THEN SignatureBlock(result.value)
                                   ELSE UndefinedSig,
             signingKeyIds |-> <<id>>,
             signed |-> op])
  /\ UNCHANGED <<Keyring, other, senderAddress, signature, MapState>>

RoundTripNext ==
  \/ EncryptStart
  \/ EncryptMessage
  \/ EncryptUnlock
  \/ EncryptEngine
  \/ DecryptReceived
  \/ DecryptUnlock
  \/ DecryptAddress
  \/ DecryptEngine
  \/ SignStart
  \/ SignMessage
  \/ SignUnlock
  \/ SignEngine
  \/ VerifySigned
  \/ VerifyRead
  \/ VerifyMessage
  \/ VerifyEngine
  \/ \E i \in 1..Len(sigpc) : SigVerified(i)
  \/ \E i \in 1..Len(sigpc) : SigCreated(i)
  \/ MapJoin

RoundTrip == Init /\ [][RoundTripNext]_vars

----------------------------------------------------------------------------
(* Two calls in flight: while one is suspended at an await the other runs *)

\* the parameters and locals of the running call
Running ==
  [op |-> op, pc |-> pc, privateKey |-> privateKey, unlock |-> unlock,
   senderAddress |-> senderAddress, signingKeys |-> signingKeys,
   message |-> message, signature |-> signature, raw |-> raw, sigpc |-> sigpc,
   sigs |-> sigs, settled |-> settled, lookups |-> lookups, calls |-> calls,
   result |-> result]

\* variant: the key is held in one variable of the module, which the call
\* that ran last has written
ResumedKeyShared(saved) == privateKey

\* lines 24, 88, 116: `privateKey` / `signingKey` is a `let` of the function,
\* so a resumed call finds the value it assigned itself
ResumedKey(saved) == saved.privateKey

\* the running call stays suspended at its await, the other call is resumed
Switch ==
  /\ other' = Running
  /\ op' = other.op
  /\ pc' = other.pc
  /\ privateKey' = ResumedKey(other)
  /\ unlock' = other.unlock
  /\ senderAddress' = other.senderAddress
  /\ signingKeys' = other.signingKeys
  /\ message' = other.message
  /\ signature' = other.signature
  /\ raw' = other.raw
  /\ sigpc' = other.sigpc
  /\ sigs' = other.sigs
  /\ settled' = other.settled
  /\ lookups' = other.lookups
  /\ calls' = other.calls
  /\ result' = other.result
  /\ UNCHANGED Keyring

\* the calls made side by side: one recipient or signing key each, a message
\* that is unsigned or signed once by k1
OnceSigned == {<<>>, <<[signer |-> "k1", good |-> TRUE]>>}

ConcurrentDecryptArgs ==
  {a \in DecryptArgs :
     /\ a.message.sigs \in OnceSigned
     /\ a.senderAddress \in {<<>>, <<"a1">>}
     /\ Len(a.encryptionKeyIds) = 1
     /\ a.format = "utf8"}

ConcurrentEncryptArgs ==
  {a \in EncryptArgs :
     /\ a.data = Str("hello")
     /\ a.dataURL = UndefinedURL
     /\ Len(a.encryptionKeyFprs) = 1}

ConcurrentVerifyArgs ==
  {a \in VerifyArgs :
     /\ a.message.kind = "signed"
     /\ a.message.sigs \in OnceSigned
     /\ a.plaintext \in {"", "hello"}
     /\ a.detachedSignature \in {UndefinedSig, ArmoredSig(<<[signer |-> "k1", good |-> TRUE]>>)}
     /\ Len(a.signingKeyIds) = 1}

ConcurrentDecrypt ==
  /\ pc = "idle"
  /\ \E a \in ConcurrentDecryptArgs : DecryptBegin(a)
  /\ UNCHANGED <<Keyring, other, senderAddress, signingKeys, message, signature, MapState>>

ConcurrentEncrypt ==
  /\ pc = "idle"
  /\ \E a \in ConcurrentEncryptArgs : EncryptBegin(a)
  /\ UNCHANGED <<Keyring, other, senderAddress, message, signature, MapState>>

ConcurrentSign ==
  /\ pc = "idle"
  /\ \E a \in SignArgs : SignBegin(a)
  /\ UNCHANGED <<Keyring, other, unlock, privateKey, senderAddress, signingKeys, message,
                 signature, MapState, result>>

ConcurrentVerify ==
  /\ pc = "idle"
  /\ \E a \in ConcurrentVerifyArgs : VerifyBegin(a)
  /\ UNCHANGED <<Keyring, other, senderAddress, signature, MapState>>

ConcurrentNext ==
  \/ Switch
  \/ ConcurrentDecrypt
  \/ DecryptUnlock
  \/ DecryptAddress
  \/ DecryptEngine
  \/ ConcurrentEncrypt
  \/ EncryptMessage
  \/ EncryptUnlock
  \/ EncryptEngine
  \/ ConcurrentSign
  \/ SignMessage
  \/ SignUnlock
  \/ SignEngine
  \/ ConcurrentVerify
  \/ VerifyRead
  \/ VerifyMessage
  \/ VerifyEngine
  \/ \E i \in 1..Len(sigpc) : SigVerified(i)
  \/ \E i \in 1..Len(sigpc) : SigCreated(i)
  \/ MapJoin

Concurrent == Init /\ [][ConcurrentNext]_vars

----------------------------------------------------------------------------

Next ==
  \/ DecryptStart
  \/ DecryptUnlock
  \/ DecryptAddress
  \/ DecryptEngine
  \/ EncryptStart
  \/ EncryptMessage
  \/ EncryptUnlock
  \/ EncryptEngine
  \/ SignStart
  \/ SignMessage
  \/ SignUnlock
  \/ SignEngine
  \/ VerifyStart
  \/ VerifyRead
  \/ VerifyMessage
  \/ VerifyEngine
  \/ \E i \in 1..Len(sigpc) : SigVerified(i)
  \/ \E i \in 1..Len(sigpc) : SigCreated(i)
  \/ MapJoin

Spec == Init /\ [][Next]_vars

----------------------------------------------------------------------------
(* Properties *)

UnlockErrors == {"UserCancelled", "WrongPassphrase"}
ResolutionErrors == {"NoKeyFound"}

\* the engine functions that build a message, and those that do cryptography
BuilderCalls == {"createMessage", "createCleartextMessage"}
CryptoCalls == {"pgpEncrypt", "pgpDecrypt", "pgpSign"}

NoCall(fns) == \A i \in 1..Len(calls) : calls[i].fn \notin fns

\* decrypt, encrypt or sign was aborted by a key resolution or unlock failure
AbortedByKeys ==
  /\ op.name \in {"decrypt", "encrypt", "sign"}
  /\ result.status = "rejected"
  /\ result.error \in ResolutionErrors \cup UnlockErrors

\* C1 as stated: when decrypt, encrypt or sign is aborted by a key resolution
\* or unlock failure, no engine function (createMessage,
\* createCleartextMessage, encrypt, decrypt, sign) was invoked before.
C1_NoEngineCallBeforeAbort ==
  AbortedByKeys => NoCall(BuilderCalls \cup CryptoCalls)

\* C1 amended: when decrypt, encrypt or sign is aborted by a key resolution
\* or unlock failure, the engine's encrypt, decrypt and sign were not invoked
\* before; decrypt invoked no engine function at all, while sign has already
\* invoked createCleartextMessage and encrypt has already invoked
\* createMessage whenever data or dataURL was supplied.
C1_NoCryptoCallBeforeAbort ==
  AbortedByKeys =>
    /\ NoCall(CryptoCalls)
    /\ op.name = "decrypt" => NoCall(BuilderCalls)
    /\ op.name = "sign" => Called("createCleartextMessage")
    /\ op.name = "encrypt" => (Called("createMessage") <=> DataGiven(op) \/ URLGiven(op))

\* encrypt built its message and then failed to resolve the recipients' keys
C1_Witness ==
  /\ op.name = "encrypt"
  /\ result = Rejected("NoKeyFound")
  /\ unlock = "ok"
  /\ Called("createMessage")
  /\ calls[Len(calls)].fn = "getKeysByFprs"

\* C2: if the unlock callback fails during decrypt, encrypt or sign, the
\* operation is rejected with that very error, the engine's decrypt, encrypt
\* and sign are never invoked in it, and no value is returned to the caller.
C2_UnlockFailureAborts ==
  unlock \in UnlockErrors =>
    /\ op.name \in {"decrypt", "encrypt", "sign"}
    /\ result = Rejected(unlock)
    /\ pc = "done"
    /\ NoCall(CryptoCalls)

\* the unlock callback was invoked for a resolved key and was cancelled
C2_Witness ==
  /\ op.name = "decrypt"
  /\ unlock = "UserCancelled"
  /\ calls[Len(calls)] = Call("unlockKey", Priv("k1"))
  /\ result.status = "rejected"

\* the pgpDecrypt calls made so far
DecryptCalls == {i \in 1..Len(calls) : calls[i].fn = "pgpDecrypt"}

\* decrypt or verify has returned its result
Returned ==
  /\ op.name \in {"decrypt", "verify"}
  /\ result.status = "fulfilled"

\* decrypt was called with no sender address and without selfSigned
NoVerificationAsked ==
  /\ op.name = "decrypt"
  /\ op.senderAddress = <<>>
  /\ ~op.selfSigned

\* what C3 says of the calls: no address lookup, no fingerprint lookup, and
\* no verification-key set handed to the engine
C3_NoLookups ==
  /\ ~Called("getKeyByAddress")
  /\ lookups = {}
  /\ \A i \in DecryptCalls : ~calls[i].arg.verificationKeys.defined

NoSenderKey == \A a \in Range(op.senderAddress) : KeysOfAddress(a) = <<>>

\* C4: whenever decrypt reaches the engine's decrypt call with senderAddress
\* non-empty or selfSigned set, the verification-key list handed over is
\* non-empty; when the address lookup yielded no key (or no address was
\* given) it is exactly the single unlocked decryption key.
C4_VerificationKeysNotEmpty ==
  \A i \in DecryptCalls :
    (op.senderAddress # <<>> \/ op.selfSigned) =>
      LET given == calls[i].arg
      IN  /\ given.verificationKeys.defined
          /\ given.verificationKeys.keys # <<>>
          /\ NoSenderKey =>
               /\ given.verificationKeys.keys = <<given.decryptionKeys>>
               /\ given.decryptionKeys =
                    Unlocked(KeyIdOf(getPrivateKeyByIds(op.encryptionKeyIds).key))

\* a sender address without any key: the engine got the decryption key alone
C4_Witness ==
  /\ op.name = "decrypt"
  /\ op.senderAddress # <<>>
  /\ ~op.selfSigned
  /\ NoSenderKey
  /\ \E i \in DecryptCalls :
       calls[i].arg.verificationKeys.keys = <<Unlocked("k1")>>

\* the callbacks that called getFprForKeyId
LookedUp == {l[1] : l \in lookups}

\* C5: in every record returned by decrypt or verify a fingerprint is present
\* only if valid is not Unknown, and for a signature classified Unknown the
\* keyring's fingerprint lookup is never invoked.
C5_FingerprintOnlyIfKnown ==
  /\ \A i \in 1..Len(sigs) :
       sigs[i].valid = Unknown => sigs[i].fingerprint = Absent /\ i \notin LookedUp
  /\ Returned =>
       \A i \in 1..Len(result.value.signatures) :
         LET rec == result.value.signatures[i]
         IN  /\ rec.fingerprint # Absent => rec.valid # Unknown
             /\ rec.valid = Unknown => i \notin LookedUp

\* a result with an Unknown record next to a record that carries a
\* fingerprint: the lookup was made for the latter alone
C5_Witness ==
  /\ Returned
  /\ \E i, j \in 1..Len(result.value.signatures) :
       /\ result.value.signatures[i].valid = Unknown
       /\ result.value.signatures[j].fingerprint # Absent
       /\ LookedUp = {j}

\* C6: every signature whose verification handle evaluates to Valid but whose
\* keyId-to-fingerprint lookup fails ends as a record with valid = Invalid and
\* no fingerprint; no returned record is Valid without the fingerprint the
\* keyring gave for its keyId.
C6_ValidNeedsFingerprint ==
  Returned =>
    \A i \in 1..Len(result.value.signatures) :
      LET rec == result.value.signatures[i]
          hex == ToHex(raw.signatures[i].keyID)
      IN  /\ (raw.signatures[i].verified = "resolve" /\ ~FprLookupOk(hex)) =>
               rec.valid = Invalid /\ rec.fingerprint = Absent
          /\ rec.valid = Valid =>
               /\ FprLookupOk(rec.keyId)
               /\ rec.fingerprint = getFprForKeyId(rec.keyId)
               /\ <<i, rec.keyId>> \in lookups

\* a good signature of a key whose key id has no unique fingerprint
C6_Witness ==
  /\ Returned
  /\ \E i \in 1..Len(result.value.signatures) :
       /\ raw.signatures[i].verified = "resolve"
       /\ ~FprLookupOk(ToHex(raw.signatures[i].keyID))
       /\ result.value.signatures[i].valid = Invalid
       /\ <<i, result.value.signatures[i].keyId>> \in lookups

\* the final trust of a raw signature: its handle, then the fingerprint step
Outcome(rawSig) ==
  IF rawSig.verified = "rejectNoKey" THEN Unknown
  ELSE IF rawSig.verified = "rejectOther" THEN Invalid
  ELSE IF FprLookupOk(ToHex(rawSig.keyID)) THEN Valid
  ELSE Invalid

Carries(rec, rawSig) ==
  /\ rec.keyId = ToHex(rawSig.keyID)
  /\ rec.valid = Outcome(rawSig)

\* C7: for every list of raw signatures and every order in which their
\* verification handles complete, the mapped list is as long as the input and
\* its i-th record carries the keyId and the outcome of the i-th signature.
C7_InputOrderKept ==
  /\ pc = "map" =>
       /\ Len(settled) = Len(raw.signatures)
       /\ \A i \in 1..Len(settled) :
            sigpc[i] = "done" => Carries(settled[i], raw.signatures[i])
  /\ Returned =>
       /\ Len(result.value.signatures) = Len(raw.signatures)
       /\ \A i \in 1..Len(raw.signatures) :
            Carries(result.value.signatures[i], raw.signatures[i])

\* the second of two different signatures is mapped before the first
C7_Witness ==
  /\ pc = "map"
  /\ Len(raw.signatures) = 2
  /\ raw.signatures[1].keyID # raw.signatures[2].keyID
  /\ sigpc[1] = "verified"
  /\ sigpc[2] = "done"
  /\ settled[2].keyId = ToHex(raw.signatures[2].keyID)

\* the data the caller is owed
ExpectedData ==
  IF op.name = "decrypt" THEN Str(op.message.data)
  ELSE IF op.plaintext # "" /\ op.detachedSignature.kind # "undefined"
       THEN Str(op.plaintext)
       ELSE op.message.data

\* C8: whatever per-signature failures occur (the verification handle
\* rejects, the extraction of the signature or its timestamp fails, the
\* fingerprint lookup fails), decrypt and verify still return the message
\* data and exactly one record per raw signature; each record depends on its
\* own signature only, and a failed timestamp extraction only omits created.
C8_FailuresAbsorbed ==
  /\ pc = "map" => result = Pending
  /\ result.status = "rejected" => sigpc = <<>>
  /\ Returned =>
       /\ result.value.data = ExpectedData
       /\ Len(result.value.signatures) = Len(raw.signatures)
       /\ \A i \in 1..Len(raw.signatures) :
            LET rec == result.value.signatures[i]
                hex == ToHex(raw.signatures[i].keyID)
            IN  /\ rec.keyId = hex
                /\ rec.valid = Outcome(raw.signatures[i])
                /\ rec.fingerprint =
                     IF raw.signatures[i].verified # "rejectNoKey" /\ FprLookupOk(hex)
                     THEN getFprForKeyId(hex)
                     ELSE Absent
                /\ rec.created \in {Created, Absent}

\* two signatures: the first good but without timestamp, the second fails
\* both its handle and its timestamp
C8_Witness ==
  /\ Returned
  /\ Len(result.value.signatures) = 2
  /\ result.value.signatures[1].valid = Valid
  /\ result.value.signatures[1].created = Absent
  /\ raw.signatures[2].verified = "rejectOther"
  /\ ~FprLookupOk(result.value.signatures[2].keyId)
  /\ result.value.signatures[2].created = Absent

\* C9: before the fingerprint step each signature is classified into exactly
\* one of three values from its verification handle: Unknown if the handle
\* reports that no matching key was available, Invalid if it reports any
\* other failure, Valid whenever it completes without failure.
C9_Classification ==
  \A i \in 1..Len(sigpc) :
    sigpc[i] = "signature" =>
      LET handle == raw.signatures[i].verified
      IN  /\ sigs[i].valid \in {Valid, Invalid, Unknown}
          /\ handle = "rejectNoKey" <=> sigs[i].valid = Unknown
          /\ handle = "rejectOther" <=> sigs[i].valid = Invalid
          /\ handle = "resolve" <=> sigs[i].valid = Valid

\* two classified signatures ahead of the fingerprint step: no key, bad hash
C9_Witness ==
  /\ Len(sigpc) = 2
  /\ sigpc[1] = "signature"
  /\ sigpc[2] = "signature"
  /\ sigs[1].valid = Unknown
  /\ sigs[2].valid = Invalid
  /\ lookups = {}

\* the pgpEncrypt calls made so far
EncryptCalls == {i \in 1..Len(calls) : calls[i].fn = "pgpEncrypt"}

FirstIndex(s, x) == CHOOSE i \in 1..Len(s) : s[i] = x /\ \A j \in 1..(i - 1) : s[j] # x

\* the distinct elements of s, each at the rank of its first occurrence
Distinct(s) ==
  CHOOSE d \in SeqsUpTo(Range(s), Cardinality(Range(s))) :
    /\ Range(d) = Range(s)
    /\ NoDup(d)
    /\ \A i, j \in 1..Len(d) : i < j => FirstIndex(s, d[i]) < FirstIndex(s, d[j])

\* the lists of a list, one after the other
RECURSIVE Concat(_)
Concat(ss) == IF ss = <<>> THEN <<>> ELSE Head(ss) \o Concat(Tail(ss))

\* the keys the keyring holds for the distinct sender addresses, in address order
SenderKeys ==
  LET d == Distinct(op.senderAddress)
  IN  Concat([i \in 1..Len(d) |-> KeysOfAddress(d[i])])

\* C11: in decrypt the keyring's address lookup receives the distinct sender
\* addresses in the order of their first occurrence, and the verification-key
\* list is the concatenation, in that order, of the keys held for each distinct
\* address: a repeated address contributes its keys once, an address without
\* key contributes nothing, and the lookup step never makes decrypt fail.
C11_SenderKeysInAddressOrder ==
  (op.name = "decrypt" /\ op.senderAddress # <<>>) =>
    /\ \A i \in 1..Len(calls) :
         calls[i].fn = "getKeyByAddress" => calls[i].arg = Distinct(op.senderAddress)
    /\ \A i \in DecryptCalls :
         /\ Called("getKeyByAddress")
         /\ SenderKeys # <<>> => calls[i].arg.verificationKeys.keys = SenderKeys
    /\ pc = "decrypt_address" => result = Pending
    /\ (Called("getKeyByAddress") /\ pc # "decrypt_address") => DecryptCalls # {}

\* an address given twice around another one, both with a key, one without
\* private part: the engine got each key once, in address order
C11_Witness ==
  /\ op.name = "decrypt"
  /\ op.senderAddress = <<"a2", "a1", "a2">>
  /\ \E i \in DecryptCalls :
       calls[i].arg.verificationKeys.keys = <<Pub("k2"), Pub("k1")>>

\* the pgpVerify calls made so far
VerifyCalls == {i \in 1..Len(calls) : calls[i].fn = "pgpVerify"}

\* the keys of the identifiers the key store knows, in the order of the identifiers
MatchedKeys(ids) ==
  LET hexes == [i \in 1..Len(ids) |-> HexOfId(ids[i])]
      held == SelectSeq(hexes, LAMBDA h : h \in keystore)
  IN  [i \in 1..Len(held) |-> Pub(held[i])]

\* verify was called with plaintext and a detached signature
DetachedMode == op.plaintext # "" /\ op.detachedSignature.kind # "undefined"

\* C12: verify never fails because a signing-key identifier has no match in
\* the key store: it is rejected only for a signature block that cannot be
\* parsed or a missing message, every identifier is looked up, and the engine
\* is called with the keys of the matched identifiers only; verify of a
\* one-signature message given one identifier absent from the key store
\* returns exactly one record, with valid = Unknown and no fingerprint.
C12_UnmatchedIdsSkipped ==
  op.name = "verify" =>
    /\ result.status = "rejected" =>
         \/ DetachedMode /\ op.detachedSignature.kind = "malformed"
         \/ ~DetachedMode /\ op.message.kind = "undefined"
    /\ \A i \in 1..Len(op.signingKeyIds) :
         calls[i] = Call("getKeysForId", HexOfId(op.signingKeyIds[i]))
    /\ \A i \in VerifyCalls :
         calls[i].arg.verificationKeys = MatchedKeys(op.signingKeyIds)
    /\ (/\ Returned
        /\ Len(op.signingKeyIds) = 1
        /\ HexOfId(op.signingKeyIds[1]) \notin keystore
        /\ Len(raw.signatures) = 1) =>
         /\ Len(result.value.signatures) = 1
         /\ result.value.signatures[1].valid = Unknown
         /\ result.value.signatures[1].fingerprint = Absent

\* a message signed by k2 is verified with k2's identifier, which the key
\* store does not hold: one Unknown record comes back
C12_Witness ==
  /\ op.name = "verify"
  /\ op.signingKeyIds = <<KeyID("k2")>>
  /\ "k2" \notin keystore
  /\ \E i \in VerifyCalls : calls[i].arg.verificationKeys = <<>>
  /\ Returned
  /\ Len(result.value.signatures) = 1
  /\ result.value.signatures[1].keyId = "k2"
  /\ result.value.signatures[1].valid = Unknown

\* the encrypt call that produced the message being decrypted
Sent == op.message.origin

\* encrypt was handed a string as data
TextGiven(a) == a.data[1] = "str"

\* one of the recipients is a key whose private part the keyring holds
OwnRecipient(a) ==
  \E i \in 1..Len(a.encryptionKeyFprs) : KeyOfFpr(a.encryptionKeyFprs[i]) \in privKeys

\* the signing key, if one is asked for, is a private key of the keyring
SigningKeyHeld(a) == a.signingKeyFpr # "" => KeyOfFpr(a.signingKeyFpr) \in privKeys

\* encrypt of a text to an own key has settled, no unlock having failed
EncryptSettled ==
  /\ op.name = "encrypt"
  /\ TextGiven(op)
  /\ OwnRecipient(op)
  /\ SigningKeyHeld(op)
  /\ unlock \notin UnlockErrors
  /\ pc = "done"

\* decrypt (default format) of the output of such an encrypt has settled
DecryptSettled ==
  /\ op.name = "decrypt"
  /\ Sent.name = "encrypt"
  /\ TextGiven(Sent)
  /\ OwnRecipient(Sent)
  /\ op.format = "utf8"
  /\ unlock \notin UnlockErrors
  /\ pc = "done"

\* C13 as stated: for any plaintext m, the empty string included, encrypted
\* to a key whose private part is in the keyring and can be unlocked, encrypt
\* returns an output, armored or binary, and decrypt of that output returns
\* data equal to m.
C13_RoundTrip ==
  /\ EncryptSettled => result.status = "fulfilled"
  /\ DecryptSettled =>
       /\ result.status = "fulfilled"
       /\ result.value.data = Sent.data

\* C13 for the plaintexts other than the empty string: the round trip holds,
\* with armor and without.
C13_RoundTripNonEmpty ==
  /\ (EncryptSettled /\ op.data # Str("")) => result.status = "fulfilled"
  /\ (DecryptSettled /\ Sent.data # Str("")) =>
       /\ result.status = "fulfilled"
       /\ result.value.data = Sent.data

\* encrypt of the empty string to an own key: no message is built, the engine
\* is called without one and the call is rejected
C13_Witness ==
  /\ EncryptSettled
  /\ op.data = Str("")
  /\ op.dataURL = UndefinedURL
  /\ ~Called("createMessage")
  /\ calls[Len(calls)].fn = "pgpEncrypt"
  /\ calls[Len(calls)].arg.message = UndefinedMsg
  /\ result.status = "rejected"

\* sign with a private key of the keyring has settled, no unlock having failed
SignSettled ==
  /\ op.name = "sign"
  /\ op.signingKeyFpr # ""
  /\ KeyOfFpr(op.signingKeyFpr) \in privKeys
  /\ unlock \notin UnlockErrors
  /\ pc = "done"

\* verify of the output of a sign call, with the signing key's id, has settled
VerifySettled ==
  /\ op.name = "verify"
  /\ "signed" \in DOMAIN op
  /\ pc = "done"

\* one record, Valid, with the id of key k
OneValidRecord(k) ==
  /\ result.status = "fulfilled"
  /\ Len(result.value.signatures) = 1
  /\ result.value.signatures[1].valid = Valid
  /\ result.value.signatures[1].keyId = k

\* C14 as stated: for any plaintext m and any key k of the keyring that can
\* be unlocked, sign(m, k) returns a signed text, and verify of m with the
\* signature sign produced and signingKeyIds = [k] returns one record with
\* valid = Valid and keyId equal to k's identifier.
C14_SignThenVerify ==
  /\ SignSettled => result.status = "fulfilled"
  /\ VerifySettled => OneValidRecord(KeyOfFpr(op.signed.signingKeyFpr))

\* C14 where it holds: the record is Valid when the text is handed over as
\* the signed message, or as a non-empty plaintext next to its signature
\* block, and the keyring maps k's identifier to a fingerprint.
C14_SignThenVerifyNonEmpty ==
  /\ SignSettled => result.status = "fulfilled"
  /\ (/\ VerifySettled
      /\ op.plaintext # "" \/ op.detachedSignature = UndefinedSig
      /\ FprLookupOk(KeyOfFpr(op.signed.signingKeyFpr))) =>
       OneValidRecord(KeyOfFpr(op.signed.signingKeyFpr))

\* the empty text was signed and is verified as plaintext next to its
\* signature block: the engine is called without a message
C14_Witness ==
  /\ VerifySettled
  /\ op.signed.data = ""
  /\ op.plaintext = ""
  /\ op.detachedSignature.kind = "armored"
  /\ ~Called("readSignature")
  /\ calls[Len(calls)].fn = "pgpVerify"
  /\ calls[Len(calls)].arg.message = UndefinedMsg
  /\ result.status = "rejected"

\* the private key that the arguments of call c resolve to ("" when none)
OwnKeyId(c) ==
  IF c.op.name = "decrypt"
  THEN KeyIdOf(getPrivateKeyByIds(c.op.encryptionKeyIds).key)
  ELSE IF c.op.name \in {"encrypt", "sign"}
       THEN KeyIdOf(getPrivateKeyByIds(IdsOfFpr(c.op.signingKeyFpr)).key)
       ELSE KeyIdOf(UndefinedKey)

\* the private key handed to the engine by one of its calls
KeyUsed(call) ==
  IF call.fn = "pgpDecrypt" THEN call.arg.decryptionKeys
  ELSE IF call.fn = "pgpSign" THEN call.arg.signingKeys[1]
  ELSE call.arg.signingKeys

\* call c hands the engine no private key but the one it resolved from its
\* own arguments and had unlocked by its own, single call of unlockKey
UsesOwnKey(c) ==
  /\ c.privateKey \in {UndefinedKey, Priv(OwnKeyId(c)), Unlocked(OwnKeyId(c))}
  /\ Cardinality({i \in 1..Len(c.calls) : c.calls[i].fn = "unlockKey"}) <= 1
  /\ \A i \in 1..Len(c.calls) :
       /\ c.calls[i].fn = "unlockKey" => c.calls[i].arg = Priv(OwnKeyId(c))
       /\ c.calls[i].fn \in CryptoCalls =>
            \/ /\ c.op.name = "encrypt"
               /\ c.op.signingKeyFpr = ""
               /\ KeyUsed(c.calls[i]) = UndefinedKey
            \/ /\ KeyUsed(c.calls[i]) = Unlocked(OwnKeyId(c))
               /\ c.unlock = "ok"
               /\ \E j \in 1..(i - 1) : c.calls[j] = Call("unlockKey", Priv(OwnKeyId(c)))
       /\ c.calls[i].fn = "pgpDecrypt" =>
            \A k \in 1..Len(c.calls[i].arg.verificationKeys.keys) :
              LET key == c.calls[i].arg.verificationKeys.keys[k]
              IN  key[1] = "unlocked" => key = Unlocked(OwnKeyId(c))

\* the verification keys call c hands to the engine, from its own arguments
OwnVerificationKeys(c) ==
  IF c.op.name = "verify" THEN KeysForIds(c.op.signingKeyIds)
  ELSE LET found == FlattenKeys(toArray(c.op.senderAddress))
       IN  IF found # <<>> THEN found
           ELSE IF c.op.senderAddress # <<>> \/ c.op.selfSigned
                THEN <<Unlocked(OwnKeyId(c))>>
                ELSE <<>>

\* the signatures the engine finds for call c
OwnSignatures(c) ==
  IF /\ c.op.name = "verify"
     /\ c.op.plaintext # ""
     /\ c.op.detachedSignature.kind # "undefined"
  THEN c.op.detachedSignature.sigs
  ELSE c.op.message.sigs

\* the data call c owes its caller
OwnData(c) ==
  IF c.op.name = "decrypt"
  THEN IF c.op.format = "binary" THEN Str(c.op.message.data)
       ELSE Str(utf8Decode(c.op.message.data))
  ELSE IF c.op.plaintext # "" /\ c.op.detachedSignature.kind # "undefined"
       THEN Str(c.op.plaintext)
       ELSE c.op.message.data

\* what call c returns when it runs alone and fulfils
AloneValue(c, v) ==
  IF c.op.name = "sign"
  THEN v = pgpSign([message |-> CleartextMsg(c.op.data),
                    signingKeys |-> <<Unlocked(OwnKeyId(c))>>])
  ELSE IF c.op.name = "encrypt"
  THEN LET r == pgpEncrypt([message |-> CreatedMessage(c.op),
                            encryptionKeys |-> KeysOfFprs(c.op.encryptionKeyFprs),
                            signingKeys |-> IF c.op.signingKeyFpr = "" THEN UndefinedKey
                                            ELSE Unlocked(OwnKeyId(c)),
                            format |-> IF c.op.armor THEN "armored" ELSE "binary"])
       IN  r.ok /\ v = IF c.op.armor THEN r.value ELSE Uint8Array2str(r.value)
  ELSE /\ v.data = OwnData(c)
       /\ Len(v.signatures) = Len(OwnSignatures(c))
       /\ \A i \in 1..Len(v.signatures) :
            LET rawSig == RawSignatures(OwnSignatures(c), OwnVerificationKeys(c))[i]
            IN  Carries(v.signatures[i], rawSig)

\* the failures call c can meet when it runs alone
AloneError(c, e) ==
  \/ e \in UnlockErrors /\ c.unlock = e
  \/ /\ e = "NoKeyFound"
     /\ \/ OwnKeyId(c) = KeyIdOf(UndefinedKey)
        \/ c.op.name = "encrypt" /\ KeysOfFprs(c.op.encryptionKeyFprs) = <<>>
  \/ e \in EngineErrors /\ c.op.name = "decrypt" /\ c.unlock = "ok"
  \/ e = "EngineError" /\ c.op.name = "encrypt" /\ CreatedMessage(c.op) = UndefinedMsg
  \/ e = "MalformedSignature" /\ c.op.name = "verify"
        /\ c.op.detachedSignature.kind = "malformed"
  \/ e = "MalformedMessage" /\ c.op.name = "verify"
        /\ c.op.message.kind = "undefined"

\* call c behaves as it would alone
AsAlone(c) ==
  /\ UsesOwnKey(c)
  /\ c.result.status = "fulfilled" => AloneValue(c, c.result.value)
  /\ c.result.status = "rejected" => AloneError(c, c.result.error)

\* C15: for any interleaving of two calls at their awaits, each call returns
\* what it would return running alone (a value or a failure determined by
\* its own arguments, the keyring and the outcomes of its own awaits), every
\* call that hands a private key to the engine has invoked the unlock
\* callback itself, exactly once, and the key it hands over is the one it
\* resolved and unlocked itself, never the key of the other call.
C15_NoSharedState ==
  /\ AsAlone(Running)
  /\ AsAlone(other)

\* a decrypt that unlocked k1 has returned while a sign that unlocked k2 is
\* suspended at the engine's sign
C15_Witness ==
  /\ op.name = "decrypt"
  /\ Returned
  /\ \E i \in DecryptCalls : calls[i].arg.decryptionKeys = Unlocked("k1")
  /\ other.op.name = "sign"
  /\ other.pc = "sign_engine"
  /\ other.privateKey = Unlocked("k2")
  /\ other.unlock = "ok"

\* the unlockKey calls made so far
UnlockCalls == {i \in 1..Len(calls) : calls[i].fn = "unlockKey"}

\* the recipient key ids for which the store holds a private key
OwnRecipients == Range(op.encryptionKeyIds) \cap privKeys

\* C16: whenever decrypt is called with recipient key ids of which at least
\* one belongs to a private key of the store, it resolves such a key and
\* invokes the unlock callback on it, exactly once; the engine's decrypt is
\* called at most once, only after a successful unlock, and its decryption
\* key is the unlocked form of that very key and no other.
C16_ResolvedKeyOnly ==
  (op.name = "decrypt" /\ OwnRecipients # {}) =>
    /\ Cardinality(UnlockCalls) = 1
    /\ \A i \in UnlockCalls :
         /\ KeyIdOf(calls[i].arg) \in OwnRecipients
         /\ calls[i].arg = Priv(KeyIdOf(calls[i].arg))
         /\ i > 1 /\ calls[i - 1] = Call("getPrivateKeyByIds", op.encryptionKeyIds)
    /\ Cardinality(DecryptCalls) <= 1
    /\ unlock = "ok" => pc = "decrypt_address" \/ Cardinality(DecryptCalls) = 1
    /\ \A i \in DecryptCalls :
         /\ unlock = "ok"
         /\ \E j \in UnlockCalls :
              j < i /\ calls[i].arg.decryptionKeys = Unlocked(KeyIdOf(calls[j].arg))

\* of two recipients only the second has its private key in the store: that
\* key was unlocked and decrypted the message
C16_Witness ==
  /\ op.name = "decrypt"
  /\ op.encryptionKeyIds = <<"k2", "k1">>
  /\ privKeys = {"k1"}
  /\ Returned
  /\ \E i \in DecryptCalls : calls[i].arg.decryptionKeys = Unlocked("k1")
  /\ \E i \in UnlockCalls : calls[i].arg = Priv("k1")

\* decrypt with selfSigned and no sender address has returned, for a message
\* encrypted to one key of the keyring and carrying one genuine signature of
\* that key
SelfSignedReturned ==
  /\ op.name = "decrypt"
  /\ op.selfSigned
  /\ op.senderAddress = <<>>
  /\ Len(op.encryptionKeyIds) = 1
  /\ op.message.sigs = <<[signer |-> op.encryptionKeyIds[1], good |-> TRUE]>>
  /\ Returned

\* C17 as stated: decrypt with selfSigned set and no senderAddress, on a
\* message encrypted to and signed by the same key, returns exactly one
\* record, with valid = Valid and fingerprint equal to that key's fingerprint.
C17_SelfSignedValid ==
  SelfSignedReturned =>
    /\ Len(result.value.signatures) = 1
    /\ result.value.signatures[1].valid = Valid
    /\ result.value.signatures[1].fingerprint = Fingerprint(op.encryptionKeyIds[1])

\* C17 amended: decrypt with selfSigned set and no senderAddress, on a
\* message encrypted to and signed by the same key, verifies with the
\* unlocked decryption key alone and returns exactly one record, with that
\* key's identifier; the record has valid = Valid and that key's fingerprint
\* when the keyring's fingerprint lookup for the identifier succeeds, and
\* valid = Invalid and no fingerprint when that lookup fails.
C17_SelfSignedValidIfMapped ==
  SelfSignedReturned =>
    LET k == op.encryptionKeyIds[1]
        rec == result.value.signatures[1]
    IN  /\ \A i \in DecryptCalls :
             calls[i].arg.verificationKeys = SomeSigningKeys(<<Unlocked(k)>>)
        /\ Len(result.value.signatures) = 1
        /\ rec.keyId = k
        /\ <<1, k>> \in lookups
        /\ IF FprLookupOk(k)
           THEN rec.valid = Valid /\ rec.fingerprint = Fingerprint(k)
           ELSE rec.valid = Invalid /\ rec.fingerprint = Absent

\* a draft encrypted to and signed by k1 was decrypted with selfSigned: one
\* Valid record with k1's fingerprint
C17_Witness ==
  /\ SelfSignedReturned
  /\ op.encryptionKeyIds = <<"k1">>
  /\ result.value.signatures[1].valid = Valid
  /\ result.value.signatures[1].fingerprint = Fingerprint("k1")
  /\ \E i \in DecryptCalls : calls[i].arg.verificationKeys.keys = <<Unlocked("k1")>>

\* C18: the verification keys decrypt hands to the engine are never a mix.
\* Whenever a list is handed over it is either the keys found for the sender
\* addresses (all of them, and nothing else) or the decryption key alone; and
\* when at least one sender-address key is found the decryption key is not in
\* the list, selfSigned or not.
C18_VerificationKeysNeverMixed ==
  op.name = "decrypt" =>
    \A i \in DecryptCalls :
      LET given == calls[i].arg
          keys == given.verificationKeys.keys
      IN  /\ given.verificationKeys.defined =>
               \/ keys # <<>> /\ keys = SenderKeys
               \/ SenderKeys = <<>> /\ keys = <<given.decryptionKeys>>
          /\ SenderKeys # <<>> =>
               /\ given.verificationKeys.defined
               /\ given.decryptionKeys \notin Range(keys)
               /\ Range(keys) \subseteq {Pub(k) : k \in keystore}

\* a self-signed message with the address of the decryption key's own owner:
\* the engine got the key found for the address, not the decryption key
C18_Witness ==
  /\ op.name = "decrypt"
  /\ op.selfSigned
  /\ op.senderAddress = <<"a1">>
  /\ \E i \in DecryptCalls :
       /\ calls[i].arg.decryptionKeys = Unlocked("k1")
       /\ calls[i].arg.verificationKeys.keys = <<Pub("k1")>>

\* the message encrypt would build from its arguments, were every string data
BuiltMessage(a) ==
  IF TextGiven(a) THEN TextMsg(a.data[2])
  ELSE BinaryMsg(str2Uint8Array(dataURL2str(a.dataURL)))

\* C19: encrypt always hands a constructed message to the engine's encrypt.
\* When data is supplied, whatever string it is, the message is the text
\* message built from it and dataURL plays no part; when only dataURL is
\* supplied it is the binary message built from the decoded bytes; the
\* engine's encrypt is never invoked with an undefined message.
C19_ConstructedMessage ==
  op.name = "encrypt" =>
    \A i \in EncryptCalls :
      /\ calls[i].arg.message.kind # "undefined"
      /\ (TextGiven(op) \/ URLGiven(op)) => calls[i].arg.message = BuiltMessage(op)

\* the same for data that is not the empty string, or absent next to a dataURL
C19_ConstructedMessageNonEmpty ==
  (op.name = "encrypt" /\ (DataGiven(op) \/ (~TextGiven(op) /\ URLGiven(op)))) =>
    \A i \in EncryptCalls :
      /\ calls[i].arg.message.kind # "undefined"
      /\ calls[i].arg.message = BuiltMessage(op)

\* data is the empty string and no dataURL is given: the engine's encrypt was
\* invoked with an undefined message and the call is rejected
C19_Witness ==
  /\ op.name = "encrypt"
  /\ op.data = Str("")
  /\ ~URLGiven(op)
  /\ \E i \in EncryptCalls : calls[i].arg.message = UndefinedMsg
  /\ result = Rejected("EngineError")

\* data is the empty string next to a dataURL: the dataURL was encrypted
C19_EmptyDataURLUsed ==
  /\ op.name = "encrypt"
  /\ op.data = Str("")
  /\ op.dataURL = DataURL("hello")
  /\ \E i \in EncryptCalls : calls[i].arg.message = BinaryMsg(U8("hello"))

\* what the claim has verify hand to the engine; a plaintext of "" is taken
\* here as not supplied, the reading under which the fewest calls are detached
HandedOver(call) ==
  IF DetachedMode
  THEN /\ call.arg.message = TextMsg(op.plaintext)
       /\ call.arg.signature = ParsedSig(op.detachedSignature.sigs)
  ELSE /\ call.arg.message = op.message
       /\ call.arg.signature = UndefinedSig

\* C20: verify uses detached mode exactly when both plaintext and
\* detachedSignature are supplied: the engine then gets the message rebuilt
\* from plaintext, in place of any supplied message, and the parsed signature;
\* in every other case it gets the supplied message unchanged and no
\* signature; and the engine's verify is never invoked with an undefined
\* message.
C20_DetachedExactlyWhenBoth ==
  op.name = "verify" =>
    \A i \in VerifyCalls :
      /\ HandedOver(calls[i])
      /\ calls[i].arg.message.kind # "undefined"

\* the same for the calls that carry a message or a non-empty plaintext
\* next to its signature
C20_DetachedIfNonEmpty ==
  (op.name = "verify" /\ (DetachedMode \/ op.message # UndefinedMsg)) =>
    \A i \in VerifyCalls :
      /\ HandedOver(calls[i])
      /\ calls[i].arg.message.kind # "undefined"

\* the empty plaintext next to its signature, without a message: the engine's
\* verify was invoked with an undefined message and no signature
C20_Witness ==
  /\ op.name = "verify"
  /\ op.plaintext = ""
  /\ op.detachedSignature.kind = "armored"
  /\ op.message = UndefinedMsg
  /\ \E i \in VerifyCalls :
       /\ calls[i].arg.message = UndefinedMsg
       /\ calls[i].arg.signature = UndefinedSig
  /\ result = Rejected("MalformedMessage")

\* a message and a plaintext with its signature: the message was replaced
C20_MessageReplaced ==
  /\ op.name = "verify"
  /\ op.message.kind = "signed"
  /\ DetachedMode
  /\ \E i \in VerifyCalls :
       /\ calls[i].arg.message = TextMsg(op.plaintext)
       /\ calls[i].arg.signature.kind = "signature"

====
